---------------------------- MODULE Spec2Model ----------------------------
(***************************************************************************)
(* Model of the Ptex per-face raster subsystem of                          *)
(* source/blender/blenkernel/intern/bke_ptex.c: the mesh edge-adjacency    *)
(* index, the border-filter adjacency resolution, raster resize, the Ptex  *)
(* file import and the atlas packer.                                       *)
(*                                                                         *)
(* Array indices are 0-based as in the C source: an array of n elements is *)
(* a function with domain 0..n-1.                                          *)
(***************************************************************************)
EXTENDS Integers, Sequences, FiniteSets, TLC

VARIABLES
    mesh,     \* const Mesh *me: totpoly, totloop, totedge, mpoly[], mloop[]
    filt,     \* ptex_filter_borders_update: its local adj[] and, per loop and side, what ptex_adj_edge returned
    lp,       \* one MLoopPtex raster: rect, logres, texel_info
    heap,     \* MEM_mallocN / MEM_freeN and BPX wrapper bookkeeping
    call,     \* the last BKE_loop_ptex_* call: arguments, return value, raster before the call
    layers,   \* me->ldata: the mesh's CD_LOOP_PTEX layers
    imp,      \* BKE_ptex_import: position in its loops and its locals
    pack,     \* ptex_pack_loops: inputs, return value and resource ledger
    upd,      \* BKE_ptex_update_from_image: inputs, return value and resource ledger
    img,      \* loop_ptex->image of one layer, the Images created, the last BKE_ptex_mesh_image_get
    store     \* AlembicObject::DataStore<T>: its vector and the last data_for_time

vars == <<mesh, filt, lp, heap, call, layers, imp, pack, upd, img, store>>

(***************************************************************************)
(* Bounds of the model.                                                    *)
(***************************************************************************)
MaxLoops == 6        \* me->totloop of the meshes drawn
MaxEdges == 3        \* me->totedge of the meshes drawn
MaxLogRes == 2       \* largest log2 resolution drawn for a raster
MaxSubimages == 2    \* number of sub-images of the Ptex file drawn
MaxAllocs == 3       \* allocations tracked before the raster operations stop
MaxSamples == 3      \* samples a DataStore holds before add_data stops

(***************************************************************************)
(* Program constants.                                                      *)
(***************************************************************************)
BKE_PTEX_NO_ADJ_POLY == -1
BKE_PTEX_MAX_ADJ_POLYS == 2
ptex_rlog2_limit == 30
QuadLoops == 4

\* A pointer is <<id>>, the id of the allocation it points to; NULL is <<>>.
NULL == <<>>
PackIdle == [pc |-> "idle"]
UpdIdle == [pc |-> "idle"]

\* The layer's image pointer is NULL and no Image was created.  `has_ibuf`
\* tells whether the layer's Image holds a pixel buffer, `created` counts
\* the Images created, `last` is the last call on the layer's Image.
NoImage == [image |-> NULL, has_ibuf |-> FALSE, created |-> 0, last |-> [op |-> "none"]]

\* DataStore<T>: `data` is the vector's elements, `spare` the elements a
\* clear() left behind in the vector's storage past its end, `query` the
\* last call.  A new store has no storage.
EmptyStore == [data |-> <<>>, spare |-> <<>>, query |-> [op |-> "none"]]
ImportIdle == [pc |-> "idle"]
Ptr(id) == <<id>>

Min(S) == CHOOSE x \in S : \A y \in S : x <= y

(***************************************************************************)
(* Mesh topology.  A mesh of n loops is cut into polygons at the loop      *)
(* indices of `cuts`; every polygon owns a contiguous, non-empty loop      *)
(* range, and every loop names one edge.                                   *)
(***************************************************************************)
PolyStarts(cuts) == {0} \cup cuts

MPolyOf(n, cuts) ==
    LET starts == PolyStarts(cuts)
        IndexOf(s) == Cardinality({t \in starts : t < s})
        EndOf(s) == Min({t \in starts \cup {n} : t > s})
    IN  [k \in 0..(Cardinality(starts) - 1) |->
            LET s == CHOOSE t \in starts : IndexOf(t) = k
            IN  [loopstart |-> s, totloop |-> EndOf(s) - s]]

MeshOf(n, cuts, edges, totedge) ==
    [totpoly |-> Cardinality(PolyStarts(cuts)),
     totloop |-> n,
     totedge |-> totedge,
     mpoly   |-> MPolyOf(n, cuts),
     mloop   |-> [li \in 0..(n - 1) |-> [e |-> edges[li]]]]

\* The edge arrays of n loops.  Edges are numbered in the order the loops
\* first use them: the adjacency code only ever indexes by edge, so
\* renumbering the edges of a mesh renumbers adj[] and changes nothing else.
RECURSIVE EdgeArrays(_)
EdgeArrays(n) ==
    IF n = 0 THEN {<<>>}
    ELSE UNION {
            LET used == Cardinality({s[k] : k \in 1..Len(s)})
                top  == IF used < MaxEdges THEN used ELSE MaxEdges - 1
            IN  {Append(s, e) : e \in 0..top}
          : s \in EdgeArrays(n - 1)}

EdgesUsed(s) == Cardinality({s[k] : k \in 1..Len(s)})

\* A mesh has at least the edges its loops use, and may have loose edges.
DrawMesh(me) ==
    \E n \in 1..MaxLoops :
        \E s \in EdgeArrays(n) :
            \E cuts \in SUBSET (1..(n - 1)) :
                \E totedge \in EdgesUsed(s)..MaxEdges :
                    me = MeshOf(n, cuts, [li \in 0..(n - 1) |-> s[li + 1]], totedge)

Polys(me) == 0..(me.totpoly - 1)
Loops(me) == 0..(me.totloop - 1)
Edges(me) == 0..(me.totedge - 1)
PolyLoops(me, p) ==
    me.mpoly[p].loopstart..(me.mpoly[p].loopstart + me.mpoly[p].totloop - 1)

(***************************************************************************)
(* The edge-adjacency index.                                               *)
(***************************************************************************)
Slots == 0..(BKE_PTEX_MAX_ADJ_POLYS - 1)

bke_ptex_edge_adj_alloc(me) ==
    [edge_index \in Edges(me) |-> [polys |-> [i \in Slots |-> BKE_PTEX_NO_ADJ_POLY]]]

\* The inner `for (j ...)` of bke_ptex_edge_adj_init: the first empty slot
\* of the edge takes the polygon; with no empty slot nothing is written.
edge_adj_fill_wrong(adj, ei, poly_index) ==
    [adj EXCEPT ![ei].polys[BKE_PTEX_MAX_ADJ_POLYS - 1] = poly_index]

edge_adj_fill_overwrite(adj, ei, poly_index) ==
    LET empty == {j \in Slots : adj[ei].polys[j] = BKE_PTEX_NO_ADJ_POLY}
    IN  [adj EXCEPT ![ei].polys[IF empty = {} THEN BKE_PTEX_MAX_ADJ_POLYS - 1
                                ELSE Min(empty)] = poly_index]

edge_adj_fill(adj, ei, poly_index) ==
    LET empty == {j \in Slots : adj[ei].polys[j] = BKE_PTEX_NO_ADJ_POLY}
    IN  IF empty = {} THEN adj
        ELSE [adj EXCEPT ![ei].polys[Min(empty)] = poly_index]

RECURSIVE edge_adj_visit(_, _, _, _)
edge_adj_visit(me, adj, poly_index, i) ==
    IF poly_index >= me.totpoly THEN adj
    ELSE IF i >= me.mpoly[poly_index].totloop
         THEN edge_adj_visit(me, adj, poly_index + 1, 0)
         ELSE LET li == me.mpoly[poly_index].loopstart + i
                  ei == me.mloop[li].e
              IN  edge_adj_visit(me, edge_adj_fill(adj, ei, poly_index),
                                 poly_index, i + 1)

bke_ptex_edge_adj_init(me) ==
    edge_adj_visit(me, bke_ptex_edge_adj_alloc(me), 0, 0)

bke_ptex_edge_adj_other_poly(edge_adj, poly_index) ==
    LET hits == {i \in Slots : edge_adj.polys[i] = poly_index}
    IN  IF hits = {} THEN BKE_PTEX_NO_ADJ_POLY
        ELSE edge_adj.polys[BKE_PTEX_MAX_ADJ_POLYS - Min(hits) - 1]


(***************************************************************************)
(* ptex_adj_edge: the loop and side that border side `loop_side` of the    *)
(* raster of loop `loop_offset` of polygon `poly_index1`.  `lookups` is    *)
(* the number of calls made to bke_ptex_edge_adj_other_poly.               *)
(***************************************************************************)
Sides == {"BPX_SIDE_BOTTOM", "BPX_SIDE_RIGHT", "BPX_SIDE_TOP", "BPX_SIDE_LEFT"}

AdjEdge(loop, side, lookups) ==
    [adj_loop |-> loop, side |-> side, reverse |-> TRUE, lookups |-> lookups]

\* The `for (i ...)` scan over the loops of the other polygon: the offset of
\* its first loop on edge `e`, or -1 when it has none.
first_loop_on_edge(me, poly_index2, e) ==
    LET p2 == me.mpoly[poly_index2]
        on == {i \in 0..(p2.totloop - 1) : me.mloop[p2.loopstart + i].e = e}
    IN  IF on = {} THEN -1 ELSE Min(on)

ptex_adj_edge_no_wrap(adj, me, poly_index1, loop_offset, loop_side) ==
    LET p1 == me.mpoly[poly_index1]
    IN  IF loop_side = "BPX_SIDE_BOTTOM"
        THEN AdjEdge(p1.loopstart + loop_offset - 1, "BPX_SIDE_LEFT", 0)
        ELSE IF loop_side = "BPX_SIDE_LEFT"
        THEN AdjEdge(p1.loopstart + loop_offset + 1, "BPX_SIDE_BOTTOM", 0)
        ELSE AdjEdge(p1.loopstart + loop_offset, loop_side, 1)

ptex_adj_edge_no_fallback(adj, me, poly_index1, loop_offset, loop_side) ==
    LET p1 == me.mpoly[poly_index1]
    IN  IF loop_side = "BPX_SIDE_BOTTOM"
        THEN AdjEdge(p1.loopstart + ((p1.totloop + loop_offset - 1) % p1.totloop),
                     "BPX_SIDE_LEFT", 0)
        ELSE IF loop_side = "BPX_SIDE_LEFT"
        THEN AdjEdge(p1.loopstart + ((loop_offset + 1) % p1.totloop),
                     "BPX_SIDE_BOTTOM", 0)
        ELSE
            LET e1_offset == IF loop_side = "BPX_SIDE_TOP" THEN loop_offset
                             ELSE (p1.totloop + loop_offset - 1) % p1.totloop
                l1 == me.mloop[p1.loopstart + e1_offset]
                poly_index2 == bke_ptex_edge_adj_other_poly(adj[l1.e], poly_index1)
            IN  IF poly_index2 = BKE_PTEX_NO_ADJ_POLY
                THEN AdjEdge(-1, loop_side, 1)
                ELSE LET p2 == me.mpoly[poly_index2]
                         i == first_loop_on_edge(me, poly_index2, l1.e)
                     IN  IF i >= 0
                         THEN IF loop_side = "BPX_SIDE_TOP"
                              THEN AdjEdge(p2.loopstart + ((i + 1) % p2.totloop),
                                           "BPX_SIDE_RIGHT", 1)
                              ELSE AdjEdge(p2.loopstart + i, "BPX_SIDE_TOP", 1)
                         ELSE AdjEdge(p2.loopstart, "BPX_SIDE_TOP", 1)

ptex_adj_edge_sides_as_documented(adj, me, poly_index1, loop_offset, loop_side) ==
    LET p1 == me.mpoly[poly_index1]
    IN  IF loop_side = "BPX_SIDE_BOTTOM"
        THEN AdjEdge(p1.loopstart + ((p1.totloop + loop_offset - 1) % p1.totloop),
                     "BPX_SIDE_LEFT", 0)
        ELSE IF loop_side = "BPX_SIDE_TOP"
        THEN AdjEdge(p1.loopstart + ((loop_offset + 1) % p1.totloop),
                     "BPX_SIDE_BOTTOM", 0)
        ELSE
            LET e1_offset == IF loop_side = "BPX_SIDE_LEFT" THEN loop_offset
                             ELSE (p1.totloop + loop_offset - 1) % p1.totloop
                l1 == me.mloop[p1.loopstart + e1_offset]
                poly_index2 == bke_ptex_edge_adj_other_poly(adj[l1.e], poly_index1)
            IN  IF poly_index2 = BKE_PTEX_NO_ADJ_POLY
                THEN AdjEdge(p1.loopstart + loop_offset, loop_side, 1)
                ELSE LET p2 == me.mpoly[poly_index2]
                         i == first_loop_on_edge(me, poly_index2, l1.e)
                     IN  IF i >= 0
                         THEN IF loop_side = "BPX_SIDE_LEFT"
                              THEN AdjEdge(p2.loopstart + ((i + 1) % p2.totloop),
                                           "BPX_SIDE_RIGHT", 1)
                              ELSE AdjEdge(p2.loopstart + i, "BPX_SIDE_TOP", 1)
                         ELSE AdjEdge(p1.loopstart + loop_offset, loop_side, 1)

ptex_adj_edge_left_previous(adj, me, poly_index1, loop_offset, loop_side) ==
    LET p1 == me.mpoly[poly_index1]
    IN  IF loop_side = "BPX_SIDE_BOTTOM"
        THEN AdjEdge(p1.loopstart + ((p1.totloop + loop_offset - 1) % p1.totloop),
                     "BPX_SIDE_LEFT", 0)
        ELSE IF loop_side = "BPX_SIDE_LEFT"
        THEN AdjEdge(p1.loopstart + ((p1.totloop + loop_offset - 1) % p1.totloop),
                     "BPX_SIDE_BOTTOM", 0)
        ELSE
            LET e1_offset == IF loop_side = "BPX_SIDE_TOP" THEN loop_offset
                             ELSE (p1.totloop + loop_offset - 1) % p1.totloop
                l1 == me.mloop[p1.loopstart + e1_offset]
                poly_index2 == bke_ptex_edge_adj_other_poly(adj[l1.e], poly_index1)
            IN  IF poly_index2 = BKE_PTEX_NO_ADJ_POLY
                THEN AdjEdge(p1.loopstart + loop_offset, loop_side, 1)
                ELSE LET p2 == me.mpoly[poly_index2]
                         i == first_loop_on_edge(me, poly_index2, l1.e)
                     IN  IF i >= 0
                         THEN IF loop_side = "BPX_SIDE_TOP"
                              THEN AdjEdge(p2.loopstart + ((i + 1) % p2.totloop),
                                           "BPX_SIDE_RIGHT", 1)
                              ELSE AdjEdge(p2.loopstart + i, "BPX_SIDE_TOP", 1)
                         ELSE AdjEdge(p1.loopstart + loop_offset, loop_side, 1)

ptex_adj_edge_same_offset(adj, me, poly_index1, loop_offset, loop_side) ==
    LET p1 == me.mpoly[poly_index1]
    IN  IF loop_side = "BPX_SIDE_BOTTOM"
        THEN AdjEdge(p1.loopstart + ((p1.totloop + loop_offset - 1) % p1.totloop),
                     "BPX_SIDE_LEFT", 0)
        ELSE IF loop_side = "BPX_SIDE_LEFT"
        THEN AdjEdge(p1.loopstart + ((loop_offset + 1) % p1.totloop),
                     "BPX_SIDE_BOTTOM", 0)
        ELSE
            LET e1_offset == IF loop_side = "BPX_SIDE_TOP" THEN loop_offset
                             ELSE (p1.totloop + loop_offset - 1) % p1.totloop
                l1 == me.mloop[p1.loopstart + e1_offset]
                poly_index2 == bke_ptex_edge_adj_other_poly(adj[l1.e], poly_index1)
            IN  IF poly_index2 = BKE_PTEX_NO_ADJ_POLY
                THEN AdjEdge(p1.loopstart + loop_offset, loop_side, 1)
                ELSE LET p2 == me.mpoly[poly_index2]
                         i == first_loop_on_edge(me, poly_index2, l1.e)
                     IN  IF i >= 0
                         THEN IF loop_side = "BPX_SIDE_TOP"
                              THEN AdjEdge(p2.loopstart + i, "BPX_SIDE_RIGHT", 1)
                              ELSE AdjEdge(p2.loopstart + i, "BPX_SIDE_TOP", 1)
                         ELSE AdjEdge(p1.loopstart + loop_offset, loop_side, 1)

ptex_adj_edge(adj, me, poly_index1, loop_offset, loop_side) ==
    LET p1 == me.mpoly[poly_index1]
    IN  IF loop_side = "BPX_SIDE_BOTTOM"
        THEN \* Previous loop
             AdjEdge(p1.loopstart + ((p1.totloop + loop_offset - 1) % p1.totloop),
                     "BPX_SIDE_LEFT", 0)
        ELSE IF loop_side = "BPX_SIDE_LEFT"
        THEN \* Next loop
             AdjEdge(p1.loopstart + ((loop_offset + 1) % p1.totloop),
                     "BPX_SIDE_BOTTOM", 0)
        ELSE
            LET e1_offset == IF loop_side = "BPX_SIDE_TOP" THEN loop_offset
                             ELSE (p1.totloop + loop_offset - 1) % p1.totloop
                l1 == me.mloop[p1.loopstart + e1_offset]
                poly_index2 == bke_ptex_edge_adj_other_poly(adj[l1.e], poly_index1)
            IN  IF poly_index2 = BKE_PTEX_NO_ADJ_POLY
                THEN \* Reuse self
                     AdjEdge(p1.loopstart + loop_offset, loop_side, 1)
                ELSE LET p2 == me.mpoly[poly_index2]
                         i == first_loop_on_edge(me, poly_index2, l1.e)
                     IN  IF i >= 0
                         THEN IF loop_side = "BPX_SIDE_TOP"
                              THEN AdjEdge(p2.loopstart + ((i + 1) % p2.totloop),
                                           "BPX_SIDE_RIGHT", 1)
                              ELSE AdjEdge(p2.loopstart + i, "BPX_SIDE_TOP", 1)
                         ELSE \* Reuse self
                              AdjEdge(p1.loopstart + loop_offset, loop_side, 1)

\* The edge ptex_adj_edge looks up for a TOP or RIGHT side (l1->e).
QueriedEdge(me, poly_index1, loop_offset, loop_side) ==
    LET p1 == me.mpoly[poly_index1]
        e1_offset == IF loop_side = "BPX_SIDE_TOP" THEN loop_offset
                     ELSE (p1.totloop + loop_offset - 1) % p1.totloop
    IN  me.mloop[p1.loopstart + e1_offset].e

(***************************************************************************)
(* ptex_filter_borders_update: builds the adjacency index, then for every  *)
(* polygon i, loop offset j and side k calls ptex_adj_edge, asserts        *)
(* adj_loop >= 0 and reads ibuf->ptex_regions[adj_loop]; the atlas has one *)
(* region per loop of the mesh.                                            *)
(***************************************************************************)
Queries(me) ==
    {q \in Polys(me) \X (0..(MaxLoops - 1)) \X Sides : q[2] < me.mpoly[q[1]].totloop}

FiltNotRun == [done |-> FALSE]

ptex_filter_borders_update(me, adj, edge) ==
    [done       |-> TRUE,
     adj        |-> adj,
     edge       |-> edge,
     assert_ok  |-> \A q \in DOMAIN edge : edge[q].adj_loop >= 0,
     regions_ok |-> \A q \in DOMAIN edge :
                        /\ me.mpoly[q[1]].loopstart + q[2] \in Loops(me)
                        /\ edge[q].adj_loop \in Loops(me)]

FilterBordersUpdate ==
    /\ ~filt.done
    /\ \E adj \in {bke_ptex_edge_adj_init(mesh)} :
         \E edge \in {[q \in Queries(mesh) |->
                          ptex_adj_edge(adj, mesh, q[1], q[2], q[3])]} :
            filt' = ptex_filter_borders_update(mesh, adj, edge)
    /\ UNCHANGED <<mesh, lp, heap, call, layers, imp, pack, upd, img, store>>

(***************************************************************************)
(* Rasters.  A raster buffer is an allocation id; the heap records which   *)
(* ids are live and which were freed, and how many BPX wrappers are live.  *)
(***************************************************************************)
DataTypes == {"MPTEX_DATA_TYPE_UINT8", "MPTEX_DATA_TYPE_FLOAT32"}

LogResOf(u, v) == [u |-> u, v |-> v]

ptex_rlog2_valid(rlog2) == rlog2 >= 0 /\ rlog2 <= ptex_rlog2_limit

\* An MLoopPtex of a CD_CALLOC layer: every field zero.
CallocLoopPtex ==
    [rect       |-> NULL,
     logres     |-> LogResOf(0, 0),
     texel_info |-> [data_type |-> "MPTEX_DATA_TYPE_UINT8", num_channels |-> 0]]

EmptyHeap == [live |-> {}, freed |-> {}, twice |-> {}, next |-> 0, bpx |-> 0]

\* MEM_mallocN returns Ptr(h.next).
MEM_mallocN(h) == [h EXCEPT !.live = @ \cup {Ptr(h.next)}, !.next = @ + 1]

\* Freeing a pointer that is not live (a second free) is recorded in `twice`.
MEM_freeN(h, rect) ==
    [h EXCEPT !.live = @ \ {rect},
              !.freed = @ \cup {rect},
              !.twice = IF rect \in h.live THEN @ ELSE @ \cup {rect}]

BKE_loop_ptex_init(loop_ptex, h, texel_info, logres) ==
    [lp   |-> [rect |-> Ptr(h.next), logres |-> logres, texel_info |-> texel_info],
     heap |-> MEM_mallocN(h)]

BKE_loop_ptex_free(loop_ptex, h) ==
    IF loop_ptex.rect # NULL THEN MEM_freeN(h, loop_ptex.rect) ELSE h

\* BKE_loop_ptex_resize; `resized` is what BPX_image_buf_resize returns.
BKE_loop_ptex_resize_keeps_logres(loop_ptex, h, dst_logres, resized) ==
    IF loop_ptex.rect # NULL
    THEN LET dst_rect == Ptr(h.next)
             h1 == MEM_mallocN(h)
         IN  IF resized
             THEN [lp       |-> [loop_ptex EXCEPT !.rect = dst_rect],
                   heap     |-> MEM_freeN(h1, loop_ptex.rect),
                   dst_rect |-> dst_rect,
                   ret      |-> TRUE]
             ELSE [lp       |-> loop_ptex,
                   heap     |-> MEM_freeN(h1, dst_rect),
                   dst_rect |-> dst_rect,
                   ret      |-> FALSE]
    ELSE [lp |-> loop_ptex, heap |-> h, dst_rect |-> NULL, ret |-> FALSE]

BKE_loop_ptex_resize(loop_ptex, h, dst_logres, resized) ==
    IF loop_ptex.rect # NULL
    THEN LET dst_rect == Ptr(h.next)               \* bke_ptex_texels_malloc
             h1 == [MEM_mallocN(h) EXCEPT !.bpx = @ + 2]   \* bpx_src, bpx_dst
             h2 == [h1 EXCEPT !.bpx = @ - 2]       \* both BPX_image_buf_free
         IN  IF resized
             THEN [lp       |-> [loop_ptex EXCEPT !.rect = dst_rect,
                                                  !.logres = dst_logres],
                   heap     |-> MEM_freeN(h2, loop_ptex.rect),
                   dst_rect |-> dst_rect,
                   ret      |-> TRUE]
             ELSE [lp       |-> loop_ptex,
                   heap     |-> MEM_freeN(h2, dst_rect),
                   dst_rect |-> dst_rect,
                   ret      |-> FALSE]
    ELSE [lp |-> loop_ptex, heap |-> h, dst_rect |-> NULL, ret |-> FALSE]

(***************************************************************************)
(* Byte sizes.  An `int` is 32 bits and a `size_t` 64 bits; a value wider  *)
(* than 31 bits is kept as its bytes, least significant first, and         *)
(* multiplied the long way, byte by byte.                                  *)
(***************************************************************************)
\* The 4 bytes of an int 0 <= n < 2^31.
IntBytes(n) == [i \in 0..3 |-> (n \div (256^i)) % 256]

\* Conversion of a 4-byte int to size_t: sign extension to 8 bytes.
SizeFromInt(b) ==
    [i \in 0..7 |-> IF i < 4 THEN b[i] ELSE IF b[3] >= 128 THEN 255 ELSE 0]

\* The k low bytes of b, zero-extended.
LowBytes(b, k) == [i \in 0..(k - 1) |-> IF i \in DOMAIN b THEN b[i] ELSE 0]

\* a[0]*b[j] + a[1]*b[j-1] + ... + a[i]*b[j-i]
RECURSIVE ColumnSum(_, _, _, _)
ColumnSum(a, b, j, i) ==
    IF i < 0 THEN 0
    ELSE (IF i \in DOMAIN a /\ (j - i) \in DOMAIN b THEN a[i] * b[j - i] ELSE 0)
         + ColumnSum(a, b, j, i - 1)

RECURSIVE MulColumns(_, _, _, _, _, _)
MulColumns(a, b, k, j, carry, acc) ==
    IF j >= k THEN acc
    ELSE LET t == carry + ColumnSum(a, b, j, j)
         IN  MulColumns(a, b, k, j + 1, t \div 256, Append(acc, t % 256))

\* The k low bytes of the product of the unsigned numbers a and b.
MulBytes(a, b, k) ==
    LET acc == MulColumns(a, b, k, 0, 0, <<>>)
    IN  [i \in 0..(k - 1) |-> acc[i + 1]]

ptex_data_type_num_bytes(data_type) ==
    IF data_type = "MPTEX_DATA_TYPE_UINT8" THEN 1
    ELSE IF data_type = "MPTEX_DATA_TYPE_FLOAT32" THEN 4
    ELSE 0

\* 1 << rlog2, for a valid rlog2
ptex_res_from_rlog2(rlog2) == 2^rlog2

\* ptex_area_from_logres multiplies two ints and converts the product to
\* size_t.  A product of 2^31 or more overflows the int, which is undefined:
\* the build either keeps the low 32 bits of the product, or multiplies in a
\* 64-bit register.  The set of values the call can return.
ptex_area_from_logres(logres) ==
    LET exact == MulBytes(IntBytes(ptex_res_from_rlog2(logres.u)),
                          IntBytes(ptex_res_from_rlog2(logres.v)), 8)
        low   == SizeFromInt(LowBytes(exact, 4))
    IN  IF low = exact THEN {exact} ELSE {low, exact}

\* int * int, at most 4 * 4
BKE_ptex_bytes_per_texel(texel_info) ==
    ptex_data_type_num_bytes(texel_info.data_type) * texel_info.num_channels

\* size_t * size_t, modulo 2^64; `area` is what ptex_area_from_logres returned.
BKE_ptex_rect_num_bytes(texel_info, area) ==
    MulBytes(LowBytes(IntBytes(BKE_ptex_bytes_per_texel(texel_info)), 8), area, 8)

(***************************************************************************)
(* Raster contents.  A float is kept as its value in tenths; a texel is    *)
(* bytes_per_texel bytes.                                                  *)
(***************************************************************************)
\* const float default_pixel[4] = {0.8, 0.8, 0.8, 1}, in tenths
default_pixel == <<8, 8, 8, 10>>

\* FTOCHAR: a float to an unsigned char, round to nearest, clamped to 0..255.
FTOCHAR(tenths) ==
    IF tenths <= 0 THEN 0
    ELSE IF tenths >= 10 THEN 255
    ELSE (255 * tenths + 5) \div 10

\* The 4 bytes of the IEEE 754 single nearest to 0.8 and to 1.0.
Float32Bytes(tenths) ==
    IF tenths = 8 THEN <<205, 204, 76, 63>> ELSE <<0, 0, 128, 63>>

\* ptex_data_from_float: the bytes written to dst for `count` floats of src.
RECURSIVE ptex_data_from_float(_, _, _)
ptex_data_from_float(src, data_type, count) ==
    IF count = 0 THEN <<>>
    ELSE ptex_data_from_float(src, data_type, count - 1) \o
         (IF data_type = "MPTEX_DATA_TYPE_UINT8"
          THEN <<FTOCHAR(src[count])>>
          ELSE Float32Bytes(src[count]))

Zero8 == [i \in 0..7 |-> 0]

\* A size_t below 2^31 and its value.
FitsInt(b) == b[3] < 128 /\ \A i \in 4..7 : b[i] = 0
IntOfBytes(b) == b[0] + 256 * b[1] + 65536 * b[2] + 16777216 * b[3]

\* The texels of a raster whose contents are kept byte by byte; of a larger
\* raster only the number of texels written is kept.
FillWindow == 4^(MaxLogRes + 1)

\* The `for (i = 1; i < area; i++)` of bke_loop_ptex_fill from i on: texel i
\* takes the bytes of texel 0.  `rect` is the sequence of bytes written so
\* far.
RECURSIVE fill_copy(_, _, _, _)
fill_copy(rect, bytes_per_texel, area, i) ==
    IF i >= area THEN rect
    ELSE fill_copy(rect \o SubSeq(rect, 1, bytes_per_texel),
                   bytes_per_texel, area, i + 1)

\* bke_loop_ptex_fill on a raster with buffer lp.rect; `area` is what
\* ptex_area_from_logres returned.  The loop counter is an int: on an area
\* of 2^31 or more it overflows, which is undefined; the loop then stops at
\* 2^31 texels or goes on to `area`.  The set of outcomes.
bke_loop_ptex_fill(loop_ptex, fpixel, area) ==
    LET bytes_per_texel == BKE_ptex_bytes_per_texel(loop_ptex.texel_info)
        texel0 == ptex_data_from_float(fpixel, loop_ptex.texel_info.data_type,
                                       loop_ptex.texel_info.num_channels)
    IN  IF loop_ptex.rect = NULL \/ area = Zero8
        THEN {[ret |-> FALSE, written |-> Zero8, rect |-> <<>>]}
        ELSE IF FitsInt(area) /\ IntOfBytes(area) <= FillWindow
        THEN {[ret |-> TRUE, written |-> area,
               rect |-> fill_copy(texel0, bytes_per_texel, IntOfBytes(area), 1)]}
        ELSE {[ret |-> TRUE, written |-> w,
               rect |-> fill_copy(texel0, bytes_per_texel, FillWindow, 1)] :
                 w \in IF FitsInt(area) THEN {area}
                       ELSE {area, [i \in 0..7 |-> IF i = 3 THEN 128 ELSE 0]}}

\* The resolutions drawn: the small ones, and one whose area exceeds an int.
LogResDrawn == {LogResOf(u, v) : u, v \in 0..MaxLogRes} \cup {LogResOf(16, 16)}

TexelInfosDrawn ==
    {[data_type |-> t, num_channels |-> c] : t \in DataTypes, c \in 1..4}

LoopPtexInit ==
    /\ lp.rect = NULL
    /\ heap.next < MaxAllocs
    /\ \E texel_info \in TexelInfosDrawn : \E logres \in LogResDrawn :
          LET r == BKE_loop_ptex_init(lp, heap, texel_info, logres)
          IN  /\ lp' = r.lp
              /\ heap' = r.heap
              \* the size bke_ptex_texels_malloc asked for, and what
              \* bke_loop_ptex_fill(loop_ptex, default_pixel) left in the buffer
              /\ \E alloc_area, fill_area \in ptex_area_from_logres(logres) :
                    \E fill \in bke_loop_ptex_fill(r.lp, default_pixel, fill_area) :
                       call' = [op |-> "init",
                                num_bytes |-> BKE_ptex_rect_num_bytes(texel_info, alloc_area),
                                fill |-> fill]
    /\ UNCHANGED <<mesh, filt, layers, imp, pack, upd, img, store>>

LoopPtexResize ==
    /\ heap.next < MaxAllocs
    /\ \E dst_logres \in LogResDrawn : \E resized \in BOOLEAN :
          LET r == BKE_loop_ptex_resize(lp, heap, dst_logres, resized)
          IN  /\ lp' = r.lp
              /\ heap' = r.heap
              /\ call' = [op |-> "resize", old |-> lp, dst_logres |-> dst_logres,
                          resized |-> resized, dst_rect |-> r.dst_rect, ret |-> r.ret]
    /\ UNCHANGED <<mesh, filt, layers, imp, pack, upd, img, store>>

\* The layer entry is freed with its raster; the next entry is calloc'ed.
LoopPtexFree ==
    /\ lp.rect # NULL
    /\ heap' = BKE_loop_ptex_free(lp, heap)
    /\ lp' = CallocLoopPtex
    /\ call' = [op |-> "free"]
    /\ UNCHANGED <<mesh, filt, layers, imp, pack, upd, img, store>>

NoMesh == [totpoly |-> 0, totloop |-> 0, totedge |-> 0, mpoly |-> <<>>, mloop |-> <<>>]

InitRaster ==
    /\ mesh = NoMesh
    /\ filt = FiltNotRun
    /\ lp = CallocLoopPtex
    /\ heap = EmptyHeap
    /\ call = [op |-> "none"]
    /\ layers = <<>>
    /\ imp = ImportIdle
    /\ pack = PackIdle
    /\ upd = UpdIdle
    /\ img = NoImage
    /\ store = EmptyStore

NextRaster == LoopPtexInit \/ LoopPtexResize \/ LoopPtexFree

SpecRaster == InitRaster /\ [][NextRaster]_vars

\* C14 as stated: after BKE_loop_ptex_init with data type uint8, c channels
\* (1 <= c <= 4) and a valid logres (u, v), bke_loop_ptex_fill has written
\* all 2^u * 2^v texels, and every texel holds the first c components of
\* (204, 204, 204, 255), so every texel equals the first.
OrigC14_InitFillsDefaultColor ==
    (call.op = "init" /\ lp.texel_info.data_type = "MPTEX_DATA_TYPE_UINT8") =>
        LET c == lp.texel_info.num_channels
            e == lp.logres.u + lp.logres.v
            kept == IF e <= 2 * (MaxLogRes + 1) THEN 2^e ELSE FillWindow
            rect == call.fill.rect
        IN  /\ call.fill.ret
            /\ call.fill.written =
                  [i \in 0..7 |-> IF i = e \div 8 THEN 2^(e % 8) ELSE 0]
            /\ Len(rect) = c * kept
            /\ \A i \in 0..(kept - 1) : \A k \in 1..c :
                  /\ rect[i * c + k] = <<204, 204, 204, 255>>[k]
                  /\ rect[i * c + k] = rect[k]

\* C3: BKE_loop_ptex_resize either returns true with the raster's buffer and
\* logres replaced together by the new buffer and dst_logres (the old buffer
\* freed), or returns false, only when the raster had no buffer or the
\* resample failed, with rect, logres and texel_info as before the call and
\* the buffer it allocated freed.
ThmC3_ResizeAllOrNothing ==
    call.op = "resize" =>
        IF call.ret
        THEN /\ call.old.rect # NULL /\ call.resized
             /\ lp.rect = call.dst_rect
             /\ lp.rect \in heap.live
             /\ lp.logres = call.dst_logres
             /\ lp.texel_info = call.old.texel_info
             /\ call.old.rect \in heap.freed /\ call.old.rect \notin heap.live
        ELSE /\ call.old.rect = NULL \/ ~call.resized
             /\ lp = call.old
             /\ lp.rect # NULL => lp.rect \in heap.live
             /\ call.dst_rect # NULL =>
                   call.dst_rect \in heap.freed /\ call.dst_rect \notin heap.live
             /\ call.old.rect = NULL <=> call.dst_rect = NULL
             /\ heap.twice = {}
             /\ heap.bpx = 0

\* C3's case: a resize whose resample failed, on a raster that an earlier
\* resize had already replaced, asked for another resolution than it has.
WitC3_FailedResizeAfterSuccess ==
    /\ call.op = "resize"
    /\ ~call.ret
    /\ call.dst_rect # NULL
    /\ call.dst_logres # lp.logres
    /\ Cardinality(heap.freed) >= 2

(***************************************************************************)
(* BKE_ptex_import.  The Ptex file is the environment: what opening it,    *)
(* reading its texel info, seeking a sub-image and decoding return is      *)
(* drawn at the call.  The file holds at most MaxSubimages sub-images, so  *)
(* a seek at or past that index fails.                                     *)
(***************************************************************************)
\* (n & (n - 1)) == 0, for 0 <= n < 2^31
is_power_of_2_i(n) == n = 0 \/ \E k \in 0..ptex_rlog2_limit : n = 2^k

INT_MIN == -2147483647 - 1

\* (int)(log(u) / M_LN2), for u >= 0.  log(0) is minus infinity, and the
\* conversion of an infinity to int is undefined: the conversion instruction
\* yields INT_MIN, a folded or poisoned value may be anything.  The set of
\* values the expression can have.
int_log2(u) ==
    IF u >= 1 THEN {k \in 0..ptex_rlog2_limit : 2^k <= u /\ u \div 2 < 2^k}
    ELSE {INT_MIN, 0, ptex_rlog2_limit + 1}

\* The outcomes of BKE_ptex_log_res_from_res(&logres, u, v): what it returns
\* and what it leaves in logres.
BKE_ptex_log_res_from_res(u, v) ==
    IF is_power_of_2_i(u) /\ u >= 0 /\ is_power_of_2_i(v) /\ v >= 0
    THEN {[ok |-> TRUE, logres |-> LogResOf(lu, lv)] : lu \in int_log2(u), lv \in int_log2(v)}
    ELSE {[ok |-> FALSE, logres |-> LogResOf(0, 0)]}

BKE_ptex_texel_info_init(data_type, num_channels) ==
    IF num_channels >= 0 /\ num_channels <= 4
    THEN [ok |-> TRUE, texel_info |-> [data_type |-> data_type, num_channels |-> num_channels]]
    ELSE [ok |-> FALSE, texel_info |-> CallocLoopPtex.texel_info]

bpx_type_desc_to_mptex_data_type(type_desc) ==
    IF type_desc = "BPX_TYPE_DESC_UINT8" THEN [ok |-> TRUE, data_type |-> "MPTEX_DATA_TYPE_UINT8"]
    ELSE IF type_desc = "BPX_TYPE_DESC_FLOAT" THEN [ok |-> TRUE, data_type |-> "MPTEX_DATA_TYPE_FLOAT32"]
    ELSE [ok |-> FALSE, data_type |-> "MPTEX_DATA_TYPE_UINT8"]

\* bke_ptex_texel_info_from_bpx on an input whose type and channel queries
\* succeeded with `type_desc` and `num_channels`.
bke_ptex_texel_info_from_bpx(type_desc, num_channels) ==
    LET t == bpx_type_desc_to_mptex_data_type(type_desc)
    IN  IF ~t.ok THEN [ok |-> FALSE, texel_info |-> CallocLoopPtex.texel_info]
        ELSE BKE_ptex_texel_info_init(t.data_type, num_channels)

\* mesh_ptex_import_loop on the MLoopPtex `data[loop_index]`; `lr` is the
\* outcome of BKE_ptex_log_res_from_res(&logres, width, height), `decoded`
\* what BPX_image_input_read and BPX_image_buf_transform return together.
mesh_ptex_import_loop(data, h, loop_index, texel_info, lr, decoded) ==
        IF ~lr.ok THEN [ok |-> FALSE, data |-> data, heap |-> h]
        ELSE LET r == BKE_loop_ptex_init(data[loop_index], h, texel_info, lr.logres)
             IN  [ok   |-> decoded,
                  data |-> [data EXCEPT ![loop_index] = r.lp],
                  heap |-> r.heap]

\* The `for (i = 0; i < 4; i++)` of mesh_ptex_import_quad, from quadrant i on.
RECURSIVE quad_init_loops(_, _, _, _, _, _)
quad_init_loops(data, h, loop_index, texel_info, logres, i) ==
    IF i >= 4 THEN [data |-> data, heap |-> h]
    ELSE LET logres_transposed == LogResOf(logres.v, logres.u)
             r == BKE_loop_ptex_init(data[loop_index + i], h, texel_info,
                                     IF i % 2 = 0 THEN logres ELSE logres_transposed)
         IN  quad_init_loops([data EXCEPT ![loop_index + i] = r.lp], r.heap,
                             loop_index, texel_info, logres, i + 1)

\* mesh_ptex_import_quad on data[loop_index .. loop_index + 3]; `lr` is the
\* outcome of BKE_ptex_log_res_from_res(&logres, width, height), `decoded`
\* what BPX_image_buf_alloc_empty and BPX_image_input_read return together.
\* What BPX_image_buf_quad_split returns is only asserted.
mesh_ptex_import_quad_full_res(data, h, loop_index, texel_info, lr, decoded) ==
        IF ~lr.ok \/ ~decoded THEN [ok |-> FALSE, data |-> data, heap |-> h]
        ELSE LET r == quad_init_loops(data, h, loop_index, texel_info, lr.logres, 0)
             IN  [ok |-> TRUE, data |-> r.data, heap |-> r.heap]

mesh_ptex_import_quad(data, h, loop_index, texel_info, lr, decoded) ==
        IF ~lr.ok \/ ~decoded THEN [ok |-> FALSE, data |-> data, heap |-> h]
        ELSE LET logres == LogResOf(IF lr.logres.u >= 1 THEN lr.logres.u - 1 ELSE lr.logres.u,
                                    IF lr.logres.v >= 1 THEN lr.logres.v - 1 ELSE lr.logres.v)
                 r == quad_init_loops(data, h, loop_index, texel_info, logres, 0)
             IN  [ok |-> TRUE, data |-> r.data, heap |-> r.heap]

\* Widths and heights a sub-image is drawn with: powers of two and not.
ResDrawn == {1, 2, 3, 4}

\* What BPX_image_input_seek_subimage returns and writes to width and
\* height (which stay 0 when it fails), and whether the decode that
\* follows succeeds.
SeeksDrawn ==
    {[sought |-> FALSE, width |-> 0, height |-> 0, decoded |-> FALSE]} \cup
    {[sought |-> TRUE, width |-> w, height |-> h, decoded |-> d] :
        w \in ResDrawn, h \in ResDrawn, d \in BOOLEAN}

\* What BPX_image_input_type_desc and BPX_image_input_num_channels report.
TexelInputsDrawn ==
    {[type_desc |-> "BPX_TYPE_DESC_UINT8", num_channels |-> 4],
     [type_desc |-> "BPX_TYPE_DESC_FLOAT", num_channels |-> 1],
     [type_desc |-> "BPX_TYPE_DESC_HALF",  num_channels |-> 4],
     [type_desc |-> "BPX_TYPE_DESC_UINT8", num_channels |-> 5]}

\* BKE_ptex_import returned `ret`; `err` names the step that failed.
ImportReturned(im, ret, err) ==
    [im EXCEPT !.pc = "done", !.ret = ret, !.err = err, !.input_open = FALSE]

\* BKE_ptex_import up to its loops: open the file, read the texel info, add
\* the layer.
ImportBegin ==
    /\ imp.pc = "idle"
    /\ \E opened \in BOOLEAN : \E ti \in TexelInputsDrawn : \E added \in BOOLEAN :
          LET info == bke_ptex_texel_info_from_bpx(ti.type_desc, ti.num_channels)
              im0 == [pc |-> "loop", i |-> 0, j |-> 0, ptex_face_id |-> 0,
                      width |-> 0, height |-> 0,
                      texel_info |-> IF opened THEN info.texel_info
                                     ELSE CallocLoopPtex.texel_info,
                      input_open |-> opened, ret |-> FALSE, err |-> "none",
                      before |-> layers]
          IN  IF ~opened THEN
                  /\ imp' = ImportReturned(im0, FALSE, "open")
                  /\ UNCHANGED layers
              ELSE IF ~info.ok THEN
                  /\ imp' = ImportReturned(im0, FALSE, "texel_info")
                  /\ UNCHANGED layers
              ELSE IF ~added THEN
                  /\ imp' = ImportReturned(im0, FALSE, "add_layer")
                  /\ UNCHANGED layers
              ELSE
                  /\ layers' = Append(layers, [l \in Loops(mesh) |-> CallocLoopPtex])
                  /\ imp' = IF mesh.totpoly = 0
                            THEN ImportReturned(im0, TRUE, "none") ELSE im0
    /\ UNCHANGED <<mesh, filt, lp, heap, call, pack, upd, img, store>>

\* The position after the body at (i, j): j + 1, or the next polygon once
\* the polygon's loops are done or after a quad's `break`.
ImportAdvance(im, next_poly) ==
    LET p == mesh.mpoly[im.i]
        i2 == IF next_poly \/ im.j + 1 >= p.totloop THEN im.i + 1 ELSE im.i
        j2 == IF i2 = im.i THEN im.j + 1 ELSE 0
        im2 == [im EXCEPT !.i = i2, !.j = j2, !.ptex_face_id = @ + 1]
    IN  IF i2 >= mesh.totpoly THEN ImportReturned(im2, TRUE, "none") ELSE im2

\* An error in the body: `i = me->totpoly; break;`, which leaves both loops,
\* then BPX_image_input_free and `return true`.
ImportAbort(im, err) ==
    ImportReturned([im EXCEPT !.i = mesh.totpoly], TRUE, err)

\* One pass through the body of the inner loop of BKE_ptex_import, and the
\* function's end when the pass leaves the loops.
ImportStep ==
    /\ imp.pc = "loop"
    /\ \E seek \in SeeksDrawn :
        \E lr \in BKE_ptex_log_res_from_res(seek.width, seek.height) :
          LET p == mesh.mpoly[imp.i]
              loop_index == p.loopstart + imp.j
              data == layers[Len(layers)]
              width == seek.width
              height == seek.height
              decoded == seek.decoded
              im == [imp EXCEPT !.width = width, !.height = height]
          IN  IF ~seek.sought \/ imp.ptex_face_id >= MaxSubimages THEN
                  /\ imp' = ImportAbort(imp, "seek")
                  /\ UNCHANGED <<layers, heap>>
              ELSE IF p.totloop = QuadLoops THEN
                  LET r == mesh_ptex_import_quad(data, heap, loop_index, imp.texel_info,
                                                 lr, decoded)
                  IN  /\ layers' = [layers EXCEPT ![Len(layers)] = r.data]
                      /\ heap' = r.heap
                      /\ imp' = IF r.ok THEN ImportAdvance(im, TRUE)
                                ELSE ImportAbort(im, "quad")
              ELSE
                  LET r == mesh_ptex_import_loop(data, heap, loop_index, imp.texel_info,
                                                 lr, decoded)
                  IN  /\ layers' = [layers EXCEPT ![Len(layers)] = r.data]
                      /\ heap' = r.heap
                      /\ imp' = IF r.ok THEN ImportAdvance(im, FALSE)
                                ELSE ImportAbort(im, "loop")
    /\ UNCHANGED <<mesh, filt, lp, call, pack, upd, img, store>>

\* Import reads only the polygons' loop ranges: every loop is on edge 0.
DrawImportMesh(me) ==
    \E n \in 1..MaxLoops :
        \E cuts \in SUBSET (1..(n - 1)) :
            me = MeshOf(n, cuts, [li \in 0..(n - 1) |-> 0], 1)

InitImport ==
    /\ DrawImportMesh(mesh)
    /\ filt = FiltNotRun
    /\ lp = CallocLoopPtex
    /\ heap = EmptyHeap
    /\ call = [op |-> "none"]
    /\ layers = <<>>
    /\ imp = ImportIdle
    /\ pack = PackIdle
    /\ upd = UpdIdle
    /\ img = NoImage
    /\ store = EmptyStore

NextImport == ImportBegin \/ ImportStep

SpecImport == InitImport /\ [][NextImport]_vars

(***************************************************************************)
(* Properties of BKE_ptex_import, checked under SpecImport.                *)
(***************************************************************************)
ImportFailed == imp.pc = "done" /\ imp.err # "none"

\* The import failed in its loops, after the layer was added.
ImportFailedInLoops == imp.pc = "done" /\ imp.err \in {"seek", "quad", "loop"}

\* The loops holding a raster come before all loops holding none.
RastersArePrefix(data) ==
    \A l1, l2 \in DOMAIN data : (l1 < l2 /\ data[l2].rect # NULL) => data[l1].rect # NULL

\* C1 as stated: when a step of BKE_ptex_import fails (open, texel info,
\* seek, resolution check, decode of a quad or of a loop), it processes no
\* further polygon and returns false.
OrigC1_FailureReturnsFalse ==
    ImportFailed =>
        /\ imp.ret = FALSE
        /\ IF ImportFailedInLoops
           THEN RastersArePrefix(layers[Len(layers)])
           ELSE layers = imp.before

\* C2 as stated: when BKE_ptex_import fails after the layer was added, the
\* layer and the rasters loaded into it are discarded: the mesh has the
\* layers it had before the call.
OrigC2_FailedImportRestoresLayers ==
    ImportFailedInLoops =>
        /\ layers = imp.before
        /\ heap.live = {}

\* The number of sub-images consumed before the body runs at (i, j).
RECURSIVE SubimagesBefore(_, _, _)
SubimagesBefore(me, i, j) ==
    IF i = 0 THEN j
    ELSE SubimagesBefore(me, i - 1, 0) + j
         + (IF me.mpoly[i - 1].totloop = QuadLoops THEN 1 ELSE me.mpoly[i - 1].totloop)

HalfLogRes(r) == IF r - 1 > 0 THEN r - 1 ELSE 0

\* The largest k with 2^k <= n, for n >= 1.
FloorLog2(n) == CHOOSE k \in 0..ptex_rlog2_limit : 2^k <= n /\ n \div 2 < 2^k

\* C9: every pass of the import loop that succeeds advances ptex_face_id by
\* exactly 1.  On a polygon of 4 loops the pass gives all four loops a
\* raster of logres (max(log2 W - 1, 0), max(log2 H - 1, 0)), transposed on
\* odd offsets, and moves on to the next polygon; on any other polygon it
\* gives one loop one raster of logres (log2 W, log2 H) and moves on by one
\* loop.  So the index is 1 per quad and 1 per loop of the other polygons.
ThmC9_FaceIdPerQuadOrLoop ==
    [][(imp.pc = "loop" /\ imp'.err = "none") =>
          LET p == mesh.mpoly[imp.i]
              loop_index == p.loopstart + imp.j
              data == layers[Len(layers)]
              after == layers'[Len(layers')]
              lw == FloorLog2(imp'.width)
              lh == FloorLog2(imp'.height)
          IN  /\ imp'.ptex_face_id = imp.ptex_face_id + 1
              /\ imp'.pc = "loop" =>
                    imp'.ptex_face_id = SubimagesBefore(mesh, imp'.i, imp'.j)
              /\ imp'.pc = "done" =>
                    /\ imp'.i = mesh.totpoly
                    /\ imp'.ptex_face_id = SubimagesBefore(mesh, mesh.totpoly, 0)
              /\ IF p.totloop = 4
                 THEN /\ imp.j = 0
                      /\ \A off \in 0..3 :
                            /\ after[loop_index + off].rect # NULL
                            /\ after[loop_index + off].logres =
                                 IF off % 2 = 0
                                 THEN LogResOf(HalfLogRes(lw), HalfLogRes(lh))
                                 ELSE LogResOf(HalfLogRes(lh), HalfLogRes(lw))
                      /\ \A l \in DOMAIN data :
                            l \notin loop_index..(loop_index + 3) => after[l] = data[l]
                      /\ imp'.pc = "loop" => imp'.i = imp.i + 1 /\ imp'.j = 0
                 ELSE /\ after[loop_index].rect # NULL
                      /\ after[loop_index].logres = LogResOf(lw, lh)
                      /\ 2^lw = imp'.width /\ 2^lh = imp'.height
                      /\ \A l \in DOMAIN data : l # loop_index => after[l] = data[l]
                      /\ imp'.pc = "loop" =>
                            IF imp.j + 1 < p.totloop
                            THEN imp'.i = imp.i /\ imp'.j = imp.j + 1
                            ELSE imp'.i = imp.i + 1 /\ imp'.j = 0
      ]_vars

\* C9's case: an import that succeeded on a mesh of a quad and another
\* polygon, two sub-images consumed, the quad's sub-image wider or taller
\* than 1 and not square.
WitC9_QuadAndLoopImported ==
    /\ imp.pc = "done" /\ imp.err = "none" /\ imp.ret
    /\ imp.ptex_face_id = 2
    /\ \E p \in Polys(mesh) : mesh.mpoly[p].totloop # QuadLoops
    /\ \E p \in Polys(mesh) :
          LET data == layers[Len(layers)]
              l0 == mesh.mpoly[p].loopstart
          IN  /\ mesh.mpoly[p].totloop = QuadLoops
              /\ data[l0].logres # data[l0 + 1].logres
              /\ data[l0].logres = data[l0 + 2].logres

(***************************************************************************)
(* ptex_pack_loops.  The ledger counts, per transient resource, how often  *)
(* the function acquired it and how often it released it.  What the        *)
(* allocators return is drawn at the call.                                 *)
(***************************************************************************)
NoLedger ==
    [layout_new |-> 0, layout_delete |-> 0,    \* BPX_packed_layout_new / _delete
     ibuf_alloc |-> 0, ibuf_free |-> 0,        \* IMB_alloc_from_ptex_layout / IMB_freeImBuf
     dst_wrap |-> 0, dst_free |-> 0,           \* IMB_imbuf_as_bpx_image_buf / BPX_image_buf_free
     src_wrap |-> 0, src_free |-> 0]           \* bpx_image_buf_wrap_loop_ptex / BPX_image_buf_free

\* typed: bpx_type_desc_from_mptex_data_type succeeded; ibuf_ok and dst_ok:
\* IMB_alloc_from_ptex_layout and IMB_imbuf_as_bpx_image_buf returned
\* non-NULL; image: *image_r on entry; new_image: what
\* BKE_image_add_from_imbuf returns when it is called.  In the result,
\* image is *image_r on return and `assigned` tells whether that Image was
\* given the atlas as its pixel buffer.
ptex_pack_loops_always_adds(me, image, new_image, typed, ibuf_ok, dst_ok) ==
    LET num_loops == me.totloop
        l1 == [NoLedger EXCEPT !.layout_new = 1, !.layout_delete = 1,
                               !.ibuf_alloc = IF ibuf_ok THEN 1 ELSE 0]
    IN  IF ~typed THEN [ret |-> FALSE, image |-> image, filtered |-> FALSE,
                        assigned |-> FALSE, ledger |-> NoLedger]
        ELSE IF ~ibuf_ok THEN [ret |-> FALSE, image |-> image, filtered |-> FALSE,
                               assigned |-> FALSE, ledger |-> l1]
        ELSE IF ~dst_ok
        THEN [ret |-> FALSE, image |-> image, filtered |-> FALSE, assigned |-> FALSE,
              ledger |-> [l1 EXCEPT !.ibuf_free = 1, !.layout_delete = @ + 1]]
        ELSE [ret |-> TRUE, image |-> new_image,
              filtered |-> TRUE, assigned |-> TRUE,
              ledger |-> [l1 EXCEPT !.dst_wrap = 1, !.dst_free = 1,
                                    !.src_wrap = num_loops, !.src_free = num_loops,
                                    !.ibuf_free = 1]]

ptex_pack_loops(me, image, new_image, typed, ibuf_ok, dst_ok) ==
    LET num_loops == me.totloop
        \* layout = BPX_packed_layout_new(); ibuf = IMB_alloc_from_ptex_layout(layout);
        \* BPX_packed_layout_delete(layout);
        l1 == [NoLedger EXCEPT !.layout_new = 1, !.layout_delete = 1,
                               !.ibuf_alloc = IF ibuf_ok THEN 1 ELSE 0]
    IN  IF ~typed THEN [ret |-> FALSE, image |-> image, filtered |-> FALSE,
                        assigned |-> FALSE, ledger |-> NoLedger]
        ELSE IF ~ibuf_ok THEN [ret |-> FALSE, image |-> image, filtered |-> FALSE,
                               assigned |-> FALSE, ledger |-> l1]
        ELSE IF ~dst_ok
        THEN \* IMB_freeImBuf(ibuf); BPX_packed_layout_delete(layout); return false;
             [ret |-> FALSE, image |-> image, filtered |-> FALSE, assigned |-> FALSE,
              ledger |-> [l1 EXCEPT !.ibuf_free = 1, !.layout_delete = @ + 1]]
        ELSE \* one bpx_src wrapped and freed per loop; BPX_image_buf_free(bpx_dst);
             \* ptex_filter_borders_update; if (image) the Image's buffers are
             \* freed and it is assigned the ImBuf, else a new Image is added
             \* from the ImBuf; IMB_freeImBuf(ibuf); return image != NULL;
             [ret |-> TRUE, image |-> IF image # NULL THEN image ELSE new_image,
              filtered |-> TRUE, assigned |-> TRUE,
              ledger |-> [l1 EXCEPT !.dst_wrap = 1, !.dst_free = 1,
                                    !.src_wrap = num_loops, !.src_free = num_loops,
                                    !.ibuf_free = 1]]

PackLoops ==
    /\ pack.pc = "idle"
    /\ \E image \in {NULL, Ptr(0)} : \E typed, ibuf_ok, dst_ok \in BOOLEAN :
          LET r == ptex_pack_loops(mesh, image, Ptr(1), typed, ibuf_ok, dst_ok)
          IN  /\ pack' = [pc |-> "done", image_in |-> image, image |-> r.image,
                          ret |-> r.ret, ledger |-> r.ledger]
              /\ IF r.filtered
                 THEN \E adj \in {bke_ptex_edge_adj_init(mesh)} :
                        \E edge \in {[q \in Queries(mesh) |->
                                        ptex_adj_edge(adj, mesh, q[1], q[2], q[3])]} :
                           filt' = ptex_filter_borders_update(mesh, adj, edge)
                 ELSE UNCHANGED filt
    /\ UNCHANGED <<mesh, lp, heap, call, layers, imp, upd, img, store>>

InitPack ==
    /\ DrawImportMesh(mesh)
    /\ filt = FiltNotRun
    /\ lp = CallocLoopPtex
    /\ heap = EmptyHeap
    /\ call = [op |-> "none"]
    /\ layers = <<>>
    /\ imp = ImportIdle
    /\ pack = PackIdle
    /\ upd = UpdIdle
    /\ img = NoImage
    /\ store = EmptyStore

NextPack == PackLoops

SpecPack == InitPack /\ [][NextPack]_vars

\* C10 as stated: on every exit path ptex_pack_loops has released each
\* transient resource it acquired (the packed layout, the BPX wrapper of
\* the atlas, each per-loop BPX wrapper, its reference to the atlas ImBuf)
\* exactly once.
OrigC10_PackReleasesOnce ==
    pack.pc = "done" =>
        /\ pack.ledger.layout_delete = pack.ledger.layout_new
        /\ pack.ledger.ibuf_free = pack.ledger.ibuf_alloc
        /\ pack.ledger.dst_free = pack.ledger.dst_wrap
        /\ pack.ledger.src_free = pack.ledger.src_wrap

(***************************************************************************)
(* BKE_ptex_update_from_image.  The ledger counts the function's calls     *)
(* that acquire and that release each resource.  What the layer and the    *)
(* allocators return is drawn at the call.                                 *)
(***************************************************************************)
NoUpdLedger ==
    [ibuf_acquire |-> 0, ibuf_release |-> 0,   \* BKE_image_acquire_ibuf / BKE_image_release_ibuf
     src_wrap |-> 0, src_free |-> 0,           \* IMB_imbuf_as_bpx_image_buf / BPX_image_buf_free
     dst_wrap |-> 0, dst_free |-> 0]           \* bpx_image_buf_wrap_loop_ptex / BPX_image_buf_free

\* has_layer: loop_ptex != NULL; has_image: loop_ptex->image != NULL;
\* ibuf_ok, src_ok: BKE_image_acquire_ibuf and IMB_imbuf_as_bpx_image_buf
\* returned non-NULL; wrapped: the loops i for which
\* bpx_image_buf_wrap_loop_ptex returned non-NULL.  `copied` are the loops
\* whose raster was overwritten from the atlas.
BKE_ptex_update_from_image(has_layer, has_image, ibuf_ok, src_ok, totloop, wrapped) ==
    LET none == [ret |-> FALSE, copied |-> {}, ledger |-> NoUpdLedger]
    IN  IF ~has_layer THEN none
        ELSE IF ~has_image THEN none
        ELSE IF ~ibuf_ok THEN none
        ELSE IF ~src_ok
        THEN \* return false;
             [none EXCEPT !.ledger.ibuf_acquire = 1]
        ELSE \* for (i ...) { bpx_dst = wrap; if (!bpx_dst) continue; copy }
             \* BKE_image_release_ibuf(image, ibuf, NULL); return true;
             [ret    |-> TRUE,
              copied |-> wrapped \cap (0..(totloop - 1)),
              ledger |-> [NoUpdLedger EXCEPT
                             !.ibuf_acquire = 1, !.ibuf_release = 1,
                             !.src_wrap = 1,
                             !.dst_wrap = Cardinality(wrapped \cap (0..(totloop - 1)))]]

UpdateFromImage ==
    /\ upd.pc = "idle"
    /\ \E has_layer, has_image, ibuf_ok, src_ok \in BOOLEAN :
         \E totloop \in 0..MaxLoops : \E wrapped \in SUBSET (0..(totloop - 1)) :
            LET r == BKE_ptex_update_from_image(has_layer, has_image, ibuf_ok, src_ok,
                                                totloop, wrapped)
            IN  upd' = [pc |-> "done", has_layer |-> has_layer, has_image |-> has_image,
                        ibuf_ok |-> ibuf_ok, src_ok |-> src_ok, totloop |-> totloop,
                        ret |-> r.ret, copied |-> r.copied, ledger |-> r.ledger]
    /\ UNCHANGED <<mesh, filt, lp, heap, call, layers, imp, pack, img, store>>

InitUpdate ==
    /\ mesh = NoMesh
    /\ filt = FiltNotRun
    /\ lp = CallocLoopPtex
    /\ heap = EmptyHeap
    /\ call = [op |-> "none"]
    /\ layers = <<>>
    /\ imp = ImportIdle
    /\ pack = PackIdle
    /\ upd = UpdIdle
    /\ img = NoImage
    /\ store = EmptyStore

NextUpdate == UpdateFromImage

SpecUpdate == InitUpdate /\ [][NextUpdate]_vars

\* C11 as stated: on every exit path, the early return when the atlas
\* cannot be wrapped included, BKE_ptex_update_from_image has released the
\* image buffer it acquired, the BPX wrapper of the atlas and the BPX
\* wrapper of each per-loop raster, each exactly once.
OrigC11_UpdateReleasesOnce ==
    upd.pc = "done" =>
        /\ upd.ledger.ibuf_release = upd.ledger.ibuf_acquire
        /\ upd.ledger.src_free = upd.ledger.src_wrap
        /\ upd.ledger.dst_free = upd.ledger.dst_wrap

(***************************************************************************)
(* Calls of the size and descriptor functions.                             *)
(***************************************************************************)
\* The TexelInfo values BKE_ptex_texel_info_init produces for the two data types.
TexelInfosAccepted ==
    {[data_type |-> t, num_channels |-> c] : t \in DataTypes, c \in 0..4}

\* The u and v BKE_ptex_log_res_from_res is called with.
ResArgsDrawn == {-4, -1, 0, 1, 2, 3, 4, 6, 8, 2^ptex_rlog2_limit, 2^ptex_rlog2_limit + 1}

\* The channel counts BKE_ptex_texel_info_init is called with.
ChannelsDrawn == (-1)..5

ValidLogRes == {LogResOf(u, v) : u, v \in 0..ptex_rlog2_limit}

\* The calls drawn: the function and its arguments.
TexelCallsDrawn ==
    {[op |-> "call", fn |-> "BKE_ptex_rect_num_bytes", texel_info |-> ti, logres |-> lr] :
        ti \in TexelInfosAccepted, lr \in ValidLogRes}
    \cup
    {[op |-> "call", fn |-> "BKE_ptex_texel_info_init", data_type |-> t, num_channels |-> c] :
        t \in DataTypes, c \in ChannelsDrawn}
    \cup
    {[op |-> "call", fn |-> "BKE_ptex_log_res_from_res", u |-> u, v |-> v] :
        u \in ResArgsDrawn, v \in ResArgsDrawn}

RectNumBytes ==
    /\ call.op = "call" /\ call.fn = "BKE_ptex_rect_num_bytes"
    /\ \E area \in ptex_area_from_logres(call.logres) :
          call' = [op |-> "BKE_ptex_rect_num_bytes",
                   texel_info |-> call.texel_info, logres |-> call.logres,
                   area |-> area,
                   ret |-> BKE_ptex_rect_num_bytes(call.texel_info, area)]
    /\ UNCHANGED <<mesh, filt, lp, heap, layers, imp, pack, upd, img, store>>

\* BKE_ptex_texel_info_init, then the checks BKE_loop_ptex_init and
\* BKE_ptex_bytes_per_texel make of the TexelInfo it wrote.
TexelInfoInit ==
    /\ call.op = "call" /\ call.fn = "BKE_ptex_texel_info_init"
    /\ LET r == BKE_ptex_texel_info_init(call.data_type, call.num_channels)
       IN  call' = [op |-> "BKE_ptex_texel_info_init",
                    data_type |-> call.data_type, num_channels |-> call.num_channels,
                    ret |-> r.ok, texel_info |-> r.texel_info,
                    bytes_per_texel |-> BKE_ptex_bytes_per_texel(r.texel_info),
                    \* BLI_assert(num_channels >= 1 && num_channels <= 4)
                    init_assert |-> /\ r.texel_info.num_channels >= 1
                                    /\ r.texel_info.num_channels <= 4]
    /\ UNCHANGED <<mesh, filt, lp, heap, layers, imp, pack, upd, img, store>>

LogResFromRes ==
    /\ call.op = "call" /\ call.fn = "BKE_ptex_log_res_from_res"
    /\ \E r \in BKE_ptex_log_res_from_res(call.u, call.v) :
          call' = [op |-> "BKE_ptex_log_res_from_res", u |-> call.u, v |-> call.v,
                   ret |-> r.ok, logres |-> r.logres]
    /\ UNCHANGED <<mesh, filt, lp, heap, layers, imp, pack, upd, img, store>>

InitTexel ==
    /\ mesh = NoMesh
    /\ filt = FiltNotRun
    /\ lp = CallocLoopPtex
    /\ heap = EmptyHeap
    /\ call \in TexelCallsDrawn
    /\ layers = <<>>
    /\ imp = ImportIdle
    /\ pack = PackIdle
    /\ upd = UpdIdle
    /\ img = NoImage
    /\ store = EmptyStore

NextTexel == RectNumBytes \/ TexelInfoInit \/ LogResFromRes

SpecTexel == InitTexel /\ [][NextTexel]_vars

\* The 9 bytes of m * 2^e, for 0 <= m <= 16 and 0 <= e <= 60: m shifted
\* left by e bits.
ShiftedBytes(m, e) ==
    LET w == m * 2^(e % 8)
    IN  [i \in 0..8 |-> IF i = e \div 8 THEN w % 256
                        ELSE IF i = (e \div 8) + 1 THEN w \div 256
                        ELSE 0]

\* C12 as stated: for every data type, channel count and logres in [0, 30]^2
\* BKE_ptex_rect_num_bytes returns exactly bytes_per_texel * 2^u * 2^v, and
\* the area computed by ptex_area_from_logres is 2^(u+v).
OrigC12_RectNumBytesExact ==
    call.op = "BKE_ptex_rect_num_bytes" =>
        /\ LowBytes(call.area, 9) = ShiftedBytes(1, call.logres.u + call.logres.v)
        /\ LowBytes(call.ret, 9) =
              ShiftedBytes(BKE_ptex_bytes_per_texel(call.texel_info),
                           call.logres.u + call.logres.v)

\* C13 as stated: every TexelInfo BKE_ptex_texel_info_init returns true for
\* has 1 to 4 bytes per texel when its data type is uint8 and 4 to 16 when
\* it is float32, and passes the channel-count assertion of
\* BKE_loop_ptex_init.
OrigC13_AcceptedTexelInfoValid ==
    (call.op = "BKE_ptex_texel_info_init" /\ call.ret) =>
        /\ call.texel_info.data_type = "MPTEX_DATA_TYPE_UINT8" =>
              call.bytes_per_texel \in 1..4
        /\ call.texel_info.data_type = "MPTEX_DATA_TYPE_FLOAT32" =>
              call.bytes_per_texel \in 4..16
        /\ call.init_assert

\* C15 as stated: BKE_ptex_log_res_from_res returns true only for u and v
\* that are powers of two, with 2^logres.u = u and 2^logres.v = v; the
\* logres it yields, which BKE_ptex_import hands to BKE_loop_ptex_init, and
\* the logres of every raster, has u and v in [0, 30], so the assertion
\* ptex_rlog2_valid in ptex_res_from_rlog2 holds.
OrigC15_LogResInRange ==
    /\ lp.rect # NULL => ptex_rlog2_valid(lp.logres.u) /\ ptex_rlog2_valid(lp.logres.v)
    /\ (call.op = "BKE_ptex_log_res_from_res" /\ call.ret) =>
          /\ ptex_rlog2_valid(call.logres.u)
          /\ ptex_rlog2_valid(call.logres.v)
          /\ \E k \in 0..ptex_rlog2_limit : call.u = 2^k /\ call.logres.u = k
          /\ \E k \in 0..ptex_rlog2_limit : call.v = 2^k /\ call.logres.v = k

(***************************************************************************)
(* Specification of the adjacency code: a mesh is drawn, then              *)
(* ptex_filter_borders_update runs over it.                                *)
(***************************************************************************)
InitAdj ==
    /\ DrawMesh(mesh)
    /\ filt = FiltNotRun
    /\ lp = CallocLoopPtex
    /\ heap = EmptyHeap
    /\ call = [op |-> "none"]
    /\ layers = <<>>
    /\ imp = ImportIdle
    /\ pack = PackIdle
    /\ upd = UpdIdle
    /\ img = NoImage
    /\ store = EmptyStore

NextAdj == FilterBordersUpdate

SpecAdj == InitAdj /\ [][NextAdj]_vars


(***************************************************************************)
(* Properties of the adjacency code, checked under SpecAdj.                *)
(***************************************************************************)
\* The polygons that carry edge e on at least one loop.
PolysOnEdge(me, e) ==
    {p \in Polys(me) : \E li \in PolyLoops(me, p) : me.mloop[li].e = e}

LoopsOnEdge(me, e) == {li \in Loops(me) : me.mloop[li].e = e}

CrossSides == {"BPX_SIDE_TOP", "BPX_SIDE_RIGHT"}

Self(me, q) == AdjEdge(me.mpoly[q[1]].loopstart + q[2], q[3], 1)

\* C4: on every mesh, for every polygon, loop offset and side, ptex_adj_edge
\* sets adj_loop to a loop index of the mesh that belongs to the queried
\* polygon or to a polygon carrying the queried edge, so the assertion
\* adj_loop >= 0 holds and ptex_regions is indexed in range.
ThmC4_AdjLoopValid ==
    filt.done =>
        /\ filt.assert_ok
        /\ filt.regions_ok
        /\ \A q \in DOMAIN filt.edge :
              LET r == filt.edge[q]
              IN  /\ r.adj_loop \in Loops(mesh)
                  /\ \/ r.adj_loop \in PolyLoops(mesh, q[1])
                     \/ /\ q[3] \in CrossSides
                        /\ \E p2 \in PolysOnEdge(mesh, QueriedEdge(mesh, q[1], q[2], q[3])) :
                              r.adj_loop \in PolyLoops(mesh, p2)

\* C4's case: a mesh with a boundary edge and an edge shared by three
\* polygons, on which some side resolved to a loop of another polygon.
WitC4_NonManifoldResolved ==
    /\ filt.done
    /\ \E e \in Edges(mesh) : Cardinality(PolysOnEdge(mesh, e)) >= 3
    /\ \E e \in Edges(mesh) : Cardinality(LoopsOnEdge(mesh, e)) = 1
    /\ \E q \in DOMAIN filt.edge : filt.edge[q].adj_loop \notin PolyLoops(mesh, q[1])

\* C5 as stated: TOP and BOTTOM are resolved inside the polygon without the
\* adjacency index, LEFT and RIGHT through the adjacency index.
OrigC5_TopBottomInFace ==
    filt.done =>
        \A q \in DOMAIN filt.edge :
            LET r == filt.edge[q]
            IN  IF q[3] \in {"BPX_SIDE_TOP", "BPX_SIDE_BOTTOM"}
                THEN r.lookups = 0 /\ r.adj_loop \in PolyLoops(mesh, q[1])
                ELSE r.lookups = 1

\* C5, amended: BOTTOM resolves to the previous loop and LEFT to the next
\* loop of the same polygon, whatever the adjacency index holds and without
\* a lookup in it; TOP and RIGHT take one lookup and, when the index names
\* another polygon for their edge, resolve to a loop of that polygon.
ThmC5_BottomLeftInFace ==
    filt.done =>
        \A q \in DOMAIN filt.edge :
            LET r == filt.edge[q]
                p1 == mesh.mpoly[q[1]]
            IN  /\ q[3] = "BPX_SIDE_BOTTOM" =>
                      /\ r.lookups = 0
                      /\ r.adj_loop = p1.loopstart + ((q[2] + p1.totloop - 1) % p1.totloop)
                      /\ r.side = "BPX_SIDE_LEFT"
                /\ q[3] = "BPX_SIDE_LEFT" =>
                      /\ r.lookups = 0
                      /\ r.adj_loop = p1.loopstart + ((q[2] + 1) % p1.totloop)
                      /\ r.side = "BPX_SIDE_BOTTOM"
                /\ q[3] \notin CrossSides =>
                      r = ptex_adj_edge(bke_ptex_edge_adj_alloc(mesh), mesh, q[1], q[2], q[3])
                /\ q[3] \in CrossSides =>
                      LET e == QueriedEdge(mesh, q[1], q[2], q[3])
                          p2 == bke_ptex_edge_adj_other_poly(filt.adj[e], q[1])
                      IN  /\ r.lookups = 1
                          /\ p2 # BKE_PTEX_NO_ADJ_POLY =>
                                /\ r.adj_loop \in PolyLoops(mesh, p2)
                                /\ r.side = IF q[3] = "BPX_SIDE_TOP"
                                            THEN "BPX_SIDE_RIGHT" ELSE "BPX_SIDE_TOP"
                                /\ q[3] = "BPX_SIDE_RIGHT" => mesh.mloop[r.adj_loop].e = e

\* C5's case: a TOP side that resolved to a loop of another polygon and a
\* BOTTOM side that resolved inside a polygon of several loops.
WitC5_TopCrossesPolygons ==
    /\ filt.done
    /\ \E q \in DOMAIN filt.edge :
          /\ q[3] = "BPX_SIDE_TOP"
          /\ filt.edge[q].adj_loop \notin PolyLoops(mesh, q[1])
    /\ \E q \in DOMAIN filt.edge :
          /\ q[3] = "BPX_SIDE_BOTTOM"
          /\ filt.edge[q].adj_loop # mesh.mpoly[q[1]].loopstart + q[2]

\* The contents of an edge's two slots tried for C6: what
\* bke_ptex_edge_adj_init wrote, and the polygon p1 in either slot beside
\* any polygon or none.
SlotContents(me, polys, p1) ==
    {polys} \cup
    {[j \in Slots |-> IF j = i THEN p1 ELSE x] :
        i \in Slots, x \in Polys(me) \cup {BKE_PTEX_NO_ADJ_POLY}}

\* C6: for a TOP or RIGHT side, when the lookup of its edge yields no other
\* polygon, or the polygon it yields has no loop on that edge, ptex_adj_edge
\* returns the queried loop and the queried side.
ThmC6_ReuseSelf ==
    filt.done =>
        \A q \in DOMAIN filt.edge :
            q[3] \in CrossSides =>
                LET e == QueriedEdge(mesh, q[1], q[2], q[3])
                IN  \A polys \in SlotContents(mesh, filt.adj[e].polys, q[1]) :
                        LET adj == [filt.adj EXCEPT ![e].polys = polys]
                            p2 == bke_ptex_edge_adj_other_poly(adj[e], q[1])
                        IN  (\/ p2 = BKE_PTEX_NO_ADJ_POLY
                             \/ first_loop_on_edge(mesh, p2, e) < 0)
                            => ptex_adj_edge(adj, mesh, q[1], q[2], q[3]) = Self(mesh, q)

\* C6's case: a TOP side and a RIGHT side on boundary edges came back as the
\* queried loop and side, on a mesh where another side found a neighbour.
WitC6_BoundaryReusesSelf ==
    /\ filt.done
    /\ \A side \in CrossSides :
          \E q \in DOMAIN filt.edge :
              /\ q[3] = side
              /\ bke_ptex_edge_adj_other_poly(
                     filt.adj[QueriedEdge(mesh, q[1], q[2], q[3])], q[1])
                 = BKE_PTEX_NO_ADJ_POLY
              /\ filt.edge[q] = Self(mesh, q)
    /\ \E q \in DOMAIN filt.edge : filt.edge[q].adj_loop \notin PolyLoops(mesh, q[1])

\* Every edge of the mesh is carried by exactly two loops, of two distinct
\* polygons.
ClosedManifold(me) ==
    \A e \in Edges(me) :
        /\ Cardinality(LoopsOnEdge(me, e)) = 2
        /\ Cardinality(PolysOnEdge(me, e)) = 2

\* C7: on a closed manifold mesh bke_ptex_edge_adj_init fills both slots of
\* every edge with two distinct polygons, and bke_ptex_edge_adj_other_poly
\* applied twice gives back the polygon it started from.
ThmC7_ManifoldInvolution ==
    (filt.done /\ ClosedManifold(mesh)) =>
        \A e \in Edges(mesh) :
            LET polys == filt.adj[e].polys
            IN  /\ \A i \in Slots : polys[i] \in Polys(mesh)
                /\ polys[0] # polys[1]
                /\ {polys[i] : i \in Slots} = PolysOnEdge(mesh, e)
                /\ \A p \in PolysOnEdge(mesh, e) :
                      bke_ptex_edge_adj_other_poly(filt.adj[e],
                          bke_ptex_edge_adj_other_poly(filt.adj[e], p)) = p

\* C7's case: the index of a closed manifold mesh of at least two edges.
WitC7_ClosedManifoldIndexed ==
    /\ filt.done
    /\ ClosedManifold(mesh)
    /\ mesh.totedge >= 2

\* C8 as stated: bke_ptex_edge_adj_other_poly returns another polygon when
\* the edge has one, -1 when the polygon is in neither slot or the other
\* slot is empty, and never the polygon it was given.
OrigC8_NeverSelf ==
    filt.done =>
        \A e \in Edges(mesh) : \A p \in Polys(mesh) :
            LET polys == filt.adj[e].polys
                r == bke_ptex_edge_adj_other_poly(filt.adj[e], p)
            IN  /\ r # p
                /\ (\E i \in Slots : polys[i] = p /\ polys[BKE_PTEX_MAX_ADJ_POLYS - 1 - i]
                                                       \notin {p, BKE_PTEX_NO_ADJ_POLY})
                     => r \in Polys(mesh) \ {p}
                /\ (\/ \A i \in Slots : polys[i] # p
                    \/ \E i \in Slots : /\ polys[i] = p
                                        /\ polys[BKE_PTEX_MAX_ADJ_POLYS - 1 - i]
                                           = BKE_PTEX_NO_ADJ_POLY)
                     => r = BKE_PTEX_NO_ADJ_POLY

\* The polygon that owns loop li.
PolyOfLoop(me, li) == CHOOSE p \in Polys(me) : li \in PolyLoops(me, p)

\* The loops on edge e that bke_ptex_edge_adj_init visits before loop li:
\* those of a polygon of smaller index, and those of li's polygon at a
\* smaller offset.
VisitedBefore(me, e, li) ==
    {l2 \in LoopsOnEdge(me, e) :
        \/ PolyOfLoop(me, l2) < PolyOfLoop(me, li)
        \/ /\ PolyOfLoop(me, l2) = PolyOfLoop(me, li)
           /\ l2 - me.mpoly[PolyOfLoop(me, l2)].loopstart
                < li - me.mpoly[PolyOfLoop(me, li)].loopstart}

\* The polygon of the visit number `rank` (from 0) to edge e, or -1 when the
\* edge has no such visit.
VisitorOf(me, e, rank) ==
    LET at == {li \in LoopsOnEdge(me, e) : Cardinality(VisitedBefore(me, e, li)) = rank}
    IN  IF at = {} THEN BKE_PTEX_NO_ADJ_POLY
        ELSE PolyOfLoop(me, CHOOSE li \in at : TRUE)

\* C16: bke_ptex_edge_adj_init returns an index in which, for every edge,
\* slot 0 holds the polygon of the first visit to the edge and slot 1 the
\* polygon of the second (polygons ascending, loops in order), a slot being
\* -1 when there was no such visit; so slot 1 is filled only if slot 0 is,
\* and the third and later visits change neither slot.
ThmC16_SlotsInVisitOrder ==
    filt.done =>
        \A e \in Edges(mesh) :
            /\ \A j \in Slots : filt.adj[e].polys[j] = VisitorOf(mesh, e, j)
            /\ filt.adj[e].polys[1] # BKE_PTEX_NO_ADJ_POLY =>
                  filt.adj[e].polys[0] # BKE_PTEX_NO_ADJ_POLY
            /\ DOMAIN filt.adj[e].polys = Slots

\* C16's case: an edge visited at least three times, by a third polygon that
\* is in neither slot, beside an edge visited once and an edge never visited.
WitC16_ThirdVisitIgnored ==
    /\ filt.done
    /\ \E e \in Edges(mesh) :
          /\ Cardinality(LoopsOnEdge(mesh, e)) >= 3
          /\ \E p \in PolysOnEdge(mesh, e) : \A j \in Slots : filt.adj[e].polys[j] # p
    /\ \E e \in Edges(mesh) :
          /\ filt.adj[e].polys[0] # BKE_PTEX_NO_ADJ_POLY
          /\ filt.adj[e].polys[1] = BKE_PTEX_NO_ADJ_POLY
    /\ \E e \in Edges(mesh) : \A j \in Slots : filt.adj[e].polys[j] = BKE_PTEX_NO_ADJ_POLY

\* Edge e is carried by exactly one loop of polygon p.
OneLoopOnEdge(me, p, e) ==
    Cardinality(LoopsOnEdge(me, e) \cap PolyLoops(me, p)) = 1

\* The query (polygon, loop offset, side) that names the loop and side of
\* the result r.
QueryOf(me, r) ==
    LET p == PolyOfLoop(me, r.adj_loop)
    IN  <<p, r.adj_loop - me.mpoly[p].loopstart, r.side>>

\* The TOP and RIGHT queries whose edge is carried by exactly one loop of
\* the queried polygon p1 and which resolve to a loop of another polygon p2
\* that also carries the edge on exactly one loop.
CrossQueries ==
    {q \in DOMAIN filt.edge :
        /\ q[3] \in CrossSides
        /\ LET e == QueriedEdge(mesh, q[1], q[2], q[3])
               p2 == PolyOfLoop(mesh, filt.edge[q].adj_loop)
           IN  /\ p2 # q[1]
               /\ OneLoopOnEdge(mesh, q[1], e)
               /\ OneLoopOnEdge(mesh, p2, e)}

\* C17: when the TOP side of loop j of p1 resolves to loop k of another
\* polygon p2, their shared edge being on one loop of each, it resolves to
\* the RIGHT side of k, and the RIGHT side of loop k of p2 resolves back to
\* the TOP side of loop j of p1; and the same from a RIGHT side, whose
\* counterpart is a TOP side.
ThmC17_CrossMappingSymmetric ==
    filt.done =>
        \A q \in CrossQueries :
            LET r == filt.edge[q]
            IN  /\ r.side = IF q[3] = "BPX_SIDE_TOP" THEN "BPX_SIDE_RIGHT"
                            ELSE "BPX_SIDE_TOP"
                /\ filt.edge[QueryOf(mesh, r)].adj_loop = mesh.mpoly[q[1]].loopstart + q[2]
                /\ filt.edge[QueryOf(mesh, r)].side = q[3]

\* C17's case: a TOP side and a RIGHT side of a polygon of three loops or
\* more that each resolved across an edge into another polygon of two loops
\* or more, on a mesh where a third polygon carries such an edge too.
WitC17_CrossPairResolved ==
    /\ filt.done
    /\ \A side \in CrossSides :
          \E q \in CrossQueries :
              /\ q[3] = side
              /\ mesh.mpoly[q[1]].totloop >= 3
              /\ mesh.mpoly[PolyOfLoop(mesh, filt.edge[q].adj_loop)].totloop >= 2
    /\ \E q \in CrossQueries :
          Cardinality(PolysOnEdge(mesh, QueriedEdge(mesh, q[1], q[2], q[3]))) >= 3

\* C18: in every polygon, of any size, the BOTTOM side of loop j resolves to
\* the LEFT side of the loop before it (j - 1 modulo the polygon's size),
\* whose LEFT side resolves back to the BOTTOM side of loop j; and the LEFT
\* side of loop j resolves to the BOTTOM side of the loop after it, whose
\* BOTTOM side resolves back to the LEFT side of loop j.
ThmC18_InFaceMutuallyInverse ==
    filt.done =>
        \A p \in Polys(mesh) : \A j \in 0..(mesh.mpoly[p].totloop - 1) :
            LET n == mesh.mpoly[p].totloop
                start == mesh.mpoly[p].loopstart
                prev == (j + n - 1) % n
                next == (j + 1) % n
            IN  /\ filt.edge[<<p, j, "BPX_SIDE_BOTTOM">>].adj_loop = start + prev
                /\ filt.edge[<<p, j, "BPX_SIDE_BOTTOM">>].side = "BPX_SIDE_LEFT"
                /\ filt.edge[<<p, prev, "BPX_SIDE_LEFT">>].adj_loop = start + j
                /\ filt.edge[<<p, prev, "BPX_SIDE_LEFT">>].side = "BPX_SIDE_BOTTOM"
                /\ filt.edge[<<p, j, "BPX_SIDE_LEFT">>].adj_loop = start + next
                /\ filt.edge[<<p, next, "BPX_SIDE_BOTTOM">>].adj_loop = start + j
                /\ filt.edge[<<p, next, "BPX_SIDE_BOTTOM">>].side = "BPX_SIDE_LEFT"

\* C18's case: a mesh with a polygon of one loop, whose sides resolve to
\* itself, and a polygon of four loops or more that does not start at loop
\* 0, whose first loop's BOTTOM side wrapped round to its last loop.
WitC18_WrapAroundPolygon ==
    /\ filt.done
    /\ \E p \in Polys(mesh) : mesh.mpoly[p].totloop = 1
    /\ \E p \in Polys(mesh) :
          /\ mesh.mpoly[p].totloop >= 4
          /\ mesh.mpoly[p].loopstart > 0
          /\ filt.edge[<<p, 0, "BPX_SIDE_BOTTOM">>].adj_loop =
                mesh.mpoly[p].loopstart + mesh.mpoly[p].totloop - 1


(***************************************************************************)
(* The Image of a layer.  The first MLoopPtex of the layer holds the       *)
(* pointer to the layer's Image; `img` is that pointer, whether that Image *)
(* holds a pixel buffer, and how many Images were created.                 *)
(***************************************************************************)

\* The Image has a pixel buffer.
BKE_image_has_ibuf(im) == im.has_ibuf

\* The Image's pixel buffers are dropped.
BKE_image_free_buffers(im) == [im EXCEPT !.has_ibuf = FALSE]

\* has_mesh: `me` is non-NULL; has_layer: CustomData_get_layer_n found the
\* layer.
BKE_ptex_image_mark_for_update(im, has_mesh, has_layer) ==
    IF ~has_mesh \/ ~has_layer THEN im
    ELSE IF im.image # NULL THEN BKE_image_free_buffers(im)
    ELSE im

\* has_mesh: BKE_mesh_from_object(ob) is non-NULL; has_layer:
\* CustomData_get_layer_named found the layer; typed, ibuf_ok, dst_ok: the
\* environment of ptex_pack_loops.  `packed` tells whether ptex_pack_loops
\* was called, `r` is its result.
BKE_ptex_mesh_image_get(im, me, has_mesh, has_layer, typed, ibuf_ok, dst_ok) ==
    LET none == [ret |-> FALSE, image |-> im.image, filtered |-> FALSE,
                 assigned |-> FALSE, ledger |-> NoLedger]
        r    == ptex_pack_loops(me, im.image, Ptr(im.created), typed, ibuf_ok, dst_ok)
    IN  IF ~has_mesh \/ ~has_layer
        THEN [ret |-> NULL, packed |-> FALSE, r |-> none, im |-> im]
        ELSE IF im.image = NULL \/ ~BKE_image_has_ibuf(im)
        THEN \* ptex_pack_loops(&loop_ptex->image, ...); return loop_ptex->image;
             [ret |-> r.image, packed |-> TRUE, r |-> r,
              im |-> [im EXCEPT !.image = r.image,
                                !.has_ibuf = IF r.assigned THEN TRUE ELSE @,
                                !.created = IF im.image = NULL /\ r.image # NULL
                                            THEN @ + 1 ELSE @]]
        ELSE [ret |-> im.image, packed |-> FALSE, r |-> none, im |-> im]

MeshImageGet ==
    /\ \E has_mesh, has_layer, typed, ibuf_ok, dst_ok \in BOOLEAN :
          LET g == BKE_ptex_mesh_image_get(img, mesh, has_mesh, has_layer,
                                           typed, ibuf_ok, dst_ok)
          IN  /\ img' = [g.im EXCEPT !.last =
                            [op |-> "get", found |-> has_mesh /\ has_layer,
                             image_in |-> img.image,
                             had_ibuf |-> BKE_image_has_ibuf(img),
                             created_in |-> img.created,
                             packed |-> g.packed, assigned |-> g.r.assigned,
                             ret |-> g.ret]]
              /\ IF g.packed
                 THEN pack' = [pc |-> "done", image_in |-> img.image,
                               image |-> g.r.image, ret |-> g.r.ret,
                               ledger |-> g.r.ledger]
                 ELSE UNCHANGED pack
              /\ IF g.r.filtered
                 THEN \E adj \in {bke_ptex_edge_adj_init(mesh)} :
                        \E edge \in {[q \in Queries(mesh) |->
                                        ptex_adj_edge(adj, mesh, q[1], q[2], q[3])]} :
                           filt' = ptex_filter_borders_update(mesh, adj, edge)
                 ELSE UNCHANGED filt
    /\ UNCHANGED <<mesh, lp, heap, call, layers, imp, upd, store>>

ImageMarkForUpdate ==
    /\ \E has_mesh, has_layer \in BOOLEAN :
          img' = [BKE_ptex_image_mark_for_update(img, has_mesh, has_layer)
                    EXCEPT !.last = [op |-> "mark", found |-> has_mesh /\ has_layer,
                                     image_in |-> img.image,
                                     had_ibuf |-> BKE_image_has_ibuf(img)]]
    /\ UNCHANGED <<mesh, filt, lp, heap, call, layers, imp, pack, upd, store>>

InitImage ==
    /\ DrawImportMesh(mesh)
    /\ filt = FiltNotRun
    /\ lp = CallocLoopPtex
    /\ heap = EmptyHeap
    /\ call = [op |-> "none"]
    /\ layers = <<>>
    /\ imp = ImportIdle
    /\ pack = PackIdle
    /\ upd = UpdIdle
    /\ img = NoImage
    /\ store = EmptyStore

NextImage == MeshImageGet \/ ImageMarkForUpdate

SpecImage == InitImage /\ [][NextImage]_vars

TimesDrawn == 0..4
QueryTimesDrawn == (-2)..6
nullptr == NULL

\* std::abs
Abs(x) == IF x < 0 THEN 0 - x ELSE x

\* size() - 1 in size_t: 0 - 1 wraps around to 2^64 - 1.
SizeMinusOne(size) ==
    IF size = 0 THEN [i \in 0..7 |-> 255] ELSE SizeFromInt(IntBytes(size - 1))

\* The `for (size_t i = 0; i < size() - 1; ++i)` of data_for_time from i on.
\* mem is the vector's storage, of which the first `size` elements are the
\* vector's.  An element read at or past `size` is read out of bounds: the
\* call may stop there with a fault, and past the storage what is read is
\* arbitrary, so that it may match the time.  `reads` are the indices read.
RECURSIVE data_for_time_loop(_, _, _, _, _)
data_for_time_loop(mem, size, time, i, reads) ==
    LET limit == SizeMinusOne(size)
        r0    == reads \cup {i}
        r1    == r0 \cup {i + 1}
        Fault(r) == [ret |-> nullptr, reads |-> r, fault |-> TRUE]
        Ret(k, r) == [ret |-> Ptr(k), reads |-> r, fault |-> FALSE]
    IN  IF FitsInt(limit) /\ i >= IntOfBytes(limit)
        THEN {[ret |-> nullptr, reads |-> reads, fault |-> FALSE]}
        ELSE IF i >= Len(mem) THEN {Fault(r0), Ret(i, r0)}
        ELSE (IF i >= size THEN {Fault(r0)} ELSE {}) \cup
             (IF Abs(mem[i + 1].time - time) <= 1 THEN {Ret(i, r0)}
              ELSE IF i + 1 >= Len(mem) THEN {Fault(r1), Ret(i + 1, r1)}
              ELSE (IF i + 1 >= size THEN {Fault(r1)} ELSE {}) \cup
                   (IF Abs(mem[i + 2].time - time) <= 1 THEN {Ret(i + 1, r1)}
                    ELSE IF mem[i + 1].time <= time /\ time < mem[i + 2].time
                    THEN {Ret(i, r1)}
                    ELSE data_for_time_loop(mem, size, time, i + 1, r1)))

\* The outcomes of data_for_time(time).
data_for_time(st, time) ==
    LET size == Len(st.data)
    IN  IF size = 1 /\ Abs(st.data[1].time - time) < 1
        THEN {[ret |-> Ptr(0), reads |-> {0}, fault |-> FALSE]}
        ELSE data_for_time_loop(st.data \o st.spare, size, time, 0,
                                IF size = 1 THEN {0} ELSE {})

\* Some sample of the store covers the time: it lies within 1e-6 of it, or
\* the time lies between it and the next sample.
Covers(samples, time) ==
    \E k \in 1..Len(samples) :
        \/ Abs(samples[k].time - time) <= 1
        \/ k < Len(samples) /\ samples[k].time <= time /\ time < samples[k + 1].time

\* add_data(data_, time): both overloads push one sample.
AddData ==
    /\ Len(store.data) < MaxSamples
    /\ \E time \in TimesDrawn :
          store' = [data |-> Append(store.data, [time |-> time]),
                    spare |-> IF store.spare = <<>> THEN <<>> ELSE Tail(store.spare),
                    query |-> [op |-> "add_data", time |-> time]]
    /\ UNCHANGED <<mesh, filt, lp, heap, call, layers, imp, pack, upd, img>>

\* clear(): the vector is emptied and keeps its storage.
Clear ==
    /\ store' = [data |-> <<>>, spare |-> store.data \o store.spare,
                 query |-> [op |-> "clear"]]
    /\ UNCHANGED <<mesh, filt, lp, heap, call, layers, imp, pack, upd, img>>

DataForTime ==
    /\ \E time \in QueryTimesDrawn : \E o \in data_for_time(store, time) :
          store' = [store EXCEPT !.query =
                      [op |-> "data_for_time", time |-> time,
                       size |-> Len(store.data),
                       covered |-> Covers(store.data, time),
                       ret |-> o.ret, reads |-> o.reads, fault |-> o.fault]]
    /\ UNCHANGED <<mesh, filt, lp, heap, call, layers, imp, pack, upd, img>>

InitStore ==
    /\ mesh = NoMesh
    /\ filt = FiltNotRun
    /\ lp = CallocLoopPtex
    /\ heap = EmptyHeap
    /\ call = [op |-> "none"]
    /\ layers = <<>>
    /\ imp = ImportIdle
    /\ pack = PackIdle
    /\ upd = UpdIdle
    /\ img = NoImage
    /\ store = EmptyStore

NextStore == AddData \/ Clear \/ DataForTime

SpecStore == InitStore /\ [][NextStore]_vars

\* C20 as stated: data_for_time reads only indices in [0, size()), and
\* returns nullptr when no stored sample covers the requested time, in
\* particular on an empty store.
OrigC20_DataForTimeInBounds ==
    store.query.op = "data_for_time" =>
        /\ ~store.query.fault
        /\ \A i \in store.query.reads : 0 <= i /\ i < store.query.size
        /\ ~store.query.covered => store.query.ret = nullptr
        /\ store.query.size = 0 => store.query.ret = nullptr

=============================================================================
